---- MODULE Spec2Model ----
(***************************************************************************)
(* Contact manager backend: the mutation-and-broadcast pipeline.           *)
(*                                                                         *)
(* The backend is the Django / DRF / Channels program listed in            *)
(* src/frontend/src/App.tsx (models, serializers, views, consumers).       *)
(* Requests are served concurrently by the processes of Procs; every       *)
(* request is a sequence of steps (validation, the statements inside       *)
(* transaction.atomic, commit, group_send), and steps of different         *)
(* requests interleave.  The database is the committed state db plus the   *)
(* workspace tx of the one open write transaction (SQLite has one writer). *)
(* Readers see db only.  Store errors and channel-layer errors are the     *)
(* environment's choice at each statement that can raise.                  *)
(***************************************************************************)
EXTENDS Integers, Sequences, FiniteSets, TLC

\* ---------------------------------------------------------------- bounds
MaxRequests == 2

Procs == {1, 2}
Subs == {"s1", "s2"}
ContactIds == {1, 2}

\* ------------------------------------------------------------ data model
Fields == {"first_name", "last_name", "email", "phone"}

WellFormedEmails == {"a@x.io", "b@x.io"}

EmptyBody == [f \in {} |-> ""]

FullBody(fn, em) ==
    [f \in Fields |->
        CASE f = "first_name" -> fn
          [] f = "last_name" -> "Lee"
          [] f = "email" -> em
          [] OTHER -> "555"]

OneField(k, v) == [f \in {k} |-> v]

\* request bodies the clients send: two complete ones, a partial one, and one
\* with a blank phone and a malformed email
Bodies ==
    { FullBody("Ada", "a@x.io"), FullBody("Bo", "b@x.io"),
      OneField("first_name", "Bo"),
      [f \in {"email", "phone"} |-> IF f = "email" THEN "bad" ELSE ""] }

NULL == [id |-> 0, first_name |-> "", last_name |-> "", email |-> "", phone |-> ""]

\* class Contact
Contact(id, fn, ln, em, ph) ==
    [id |-> id, first_name |-> fn, last_name |-> ln, email |-> em, phone |-> ph]

FieldOf(c, f) ==
    CASE f = "first_name" -> c.first_name
      [] f = "last_name" -> c.last_name
      [] f = "email" -> c.email
      [] OTHER -> c.phone

\* fault: an update that rebuilds the row from the request alone
SetAttrs_Replace(c, attrs) ==
    LET val(f) == IF f \in DOMAIN attrs THEN attrs[f] ELSE ""
    IN Contact(c.id, val("first_name"), val("last_name"), val("email"), val("phone"))

\* setattr(instance, k, v) for every k of attrs
SetAttrs(c, attrs) ==
    LET val(f) == IF f \in DOMAIN attrs THEN attrs[f] ELSE FieldOf(c, f)
    IN Contact(c.id, val("first_name"), val("last_name"), val("email"), val("phone"))

\* class ContactVersion: the row ContactVersion.objects.create(contact=..., ...) inserts
ContactVersion(vid, c, t, reason) ==
    [id |-> vid, contact |-> c.id, first_name |-> c.first_name,
     last_name |-> c.last_name, email |-> c.email, phone |-> c.phone,
     edited_at |-> t, edited_reason |-> reason]

EmptyDb == [contacts |-> [i \in {} |-> NULL], versions |-> <<>>, nextCid |-> 1, nextVid |-> 1]

NoTx == [owner |-> 0]

VARIABLES
    db,       \* committed database: contacts, versions, the two id sequences
    tx,       \* the open write transaction: its owner and its workspace
    now,      \* last reading of timezone.now()
    proc,     \* per process: the request it serves and where it stands
    resp,     \* the response sent last, with what its request did
    nreq,     \* requests started
    group,    \* channel layer: members of the group "contacts"
    queue,    \* channel layer: messages waiting on each consumer's channel
    inbox,    \* frames each consumer has sent to its client
    log,      \* history: events handed to group_send, in order
    joined,   \* history: Len(log) when the consumer joined the group
    nmut,     \* history: committed create/update/external-update per live contact
    mounted,  \* browser: ContactsApp is mounted and the hook's effect has run
    socket,   \* browser: per channel, the WebSocket the hook created on it
    ws,       \* browser: the socket the hook's current effect holds
    seen,     \* browser: frames of each socket dispatched to onmessage so far
    selectedContact,  \* browser: ContactsApp's selection
    handled,  \* history: the frame onmessage handled last, the calls it made
              \* and whether it cleared a selection
    contactsQuery,  \* contact list: data of the ["contacts"] query
    editDraft,      \* contact list: the draft of the contact in edit mode
    updateContact,  \* contact list: the save mutation
    deleteContact,  \* contact list: the delete mutation
    view            \* contact list: what the last render showed

vars == <<db, tx, now, proc, resp, nreq, group, queue, inbox, log, joined, nmut,
          mounted, socket, ws, seen, selectedContact, handled,
          contactsQuery, editDraft, updateContact, deleteContact, view>>

\* the contact list's own state
ListUnchanged == UNCHANGED <<contactsQuery, editDraft, updateContact, deleteContact, view>>

\* the requests and the channel layer run on the server and touch no state
\* of the browser
BrowserUnchanged ==
    /\ UNCHANGED <<mounted, socket, ws, seen, selectedContact, handled>>
    /\ ListUnchanged

Live(d) == DOMAIN d.contacts

VersionsOf(d, id) == SelectSeq(d.versions, LAMBDA v : v.contact = id)

\* -------------------------------------------------------- serializer
\* Field validation DRF derives from the model fields: every field is
\* required unless the update is partial, no supplied field may be blank,
\* and the email must be well formed.
FieldErrors(body, partial) ==
    {f \in Fields :
        \/ (~partial /\ f \notin DOMAIN body)
        \/ (f \in DOMAIN body /\ body[f] = "")
        \/ (f = "email" /\ f \in DOMAIN body /\ body[f] \notin WellFormedEmails)}

\* fault: a serializer without the uniqueness check
validate_NoCheck(attrs, instance, d) == FALSE

\* fault: validate without qs.exclude(pk=instance.pk)
validate_IncludesSelf(attrs, instance, d) ==
    /\ "email" \in DOMAIN attrs
    /\ attrs["email"] # ""
    /\ \E i \in Live(d) : d.contacts[i].email = attrs["email"]

\* ContactSerializer.validate: TRUE when it raises {"email": ...}
validate(attrs, instance, d) ==
    LET hasEmail == "email" \in DOMAIN attrs /\ attrs["email"] # ""
        qs == {i \in Live(d) : hasEmail /\ d.contacts[i].email = attrs["email"]}
        qs2 == IF instance # NULL THEN qs \ {instance.id} ELSE qs
    IN hasEmail /\ qs2 # {}

\* serializer.errors: the field names of the 400 response body
Errors(body, partial, instance, d) ==
    IF FieldErrors(body, partial) # {} THEN FieldErrors(body, partial)
    ELSE IF validate(body, instance, d) THEN {"email"}
    ELSE {}


\* fault: the email column without its unique index
EmailUnique_NoIndex(d, c) == TRUE

\* unique=True on Contact.email: TRUE when writing c keeps the index unique
EmailUnique(d, c) ==
    \A i \in Live(d) : i # c.id => d.contacts[i].email # c.email

\* ContactSerializer(contact).data: the serializer's fields of the instance
ContactData(c) ==
    [id |-> c.id, first_name |-> c.first_name, last_name |-> c.last_name,
     email |-> c.email, phone |-> c.phone]

\* ---------------------------------------------------------- database
PutContact(d, c) ==
    [d EXCEPT !.contacts = [i \in Live(d) \cup {c.id} |-> IF i = c.id THEN c ELSE d.contacts[i]]]

\* instance.delete(): the row and, by on_delete=CASCADE, its versions
DeleteContact(d, id) ==
    [d EXCEPT !.contacts = [i \in Live(d) \ {id} |-> d.contacts[i]],
              !.versions = SelectSeq(d.versions, LAMBDA v : v.contact # id)]

\* fault: ContactVersion.objects.update_or_create(contact=contact, ...), one
\* row per contact that every mutation overwrites
AppendVersion_Upsert(d, c, t, reason) ==
    [d EXCEPT !.versions = Append(SelectSeq(d.versions, LAMBDA v : v.contact # c.id),
                                  ContactVersion(d.nextVid, c, t, reason)),
              !.nextVid = d.nextVid + 1]

AppendVersion(d, c, t, reason) ==
    [d EXCEPT !.versions = Append(d.versions, ContactVersion(d.nextVid, c, t, reason)),
              !.nextVid = d.nextVid + 1]

\* ------------------------------------------------------- channel layer
\* fault: the key names of the event payloads listed in the API design
Event_DocShape(type, payload) == [type |-> type, contact |-> payload]

Event(type, payload) == [type |-> type, payload |-> payload]

Message(ev) == [type |-> "contacts.event", event |-> ev]

\* fault: a send that reaches one member of the group only
group_send_OneMember(q, g, msg) ==
    [s \in Subs |-> IF g # {} /\ s = CHOOSE m \in g : TRUE THEN Append(q[s], msg) ELSE q[s]]

\* channel_layer.group_send("contacts", message)
group_send(q, g, msg) == [s \in Subs |-> IF s \in g THEN Append(q[s], msg) ELSE q[s]]

\* ----------------------------------------------------------- requests
\* wrote: the contact row this request has committed; sent: the events it
\* has handed to group_send (both are history, fixed by pc)
Idle == [pc |-> "idle", op |-> "none", body |-> EmptyBody, inst |-> NULL,
         committed |-> FALSE, wrote |-> NULL, sent |-> <<>>]

\* status, data and errors are the HTTP response; the rest is history of the
\* request: the exception that ended it, the id it named, whether it committed,
\* the row it left, the events it published
NoResponse == [op |-> "none", status |-> 0, data |-> NULL, errors |-> {}, exc |-> "",
               target |-> 0, committed |-> FALSE, wrote |-> NULL, sent |-> <<>>]

\* the database after POST /api/contacts/ has created the first n of these
\* contacts, one after the other
Seed(n) ==
    LET c1 == Contact(1, "Ada", "Lee", "a@x.io", "555")
        c2 == Contact(2, "Bo", "Lee", "b@x.io", "555")
        d1 == AppendVersion([PutContact(EmptyDb, c1) EXCEPT !.nextCid = 2], c1, 1, "created")
        d2 == AppendVersion([PutContact(d1, c2) EXCEPT !.nextCid = 3], c2, 2, "created")
    IN CASE n = 0 -> EmptyDb
         [] n = 1 -> d1
         [] OTHER -> d2

\* ----------------------------------------------- browser: JSON frames
\* a JSON value as JavaScript sees it: its kind (typeof, with null and
\* undefined apart), its number or string, and the members of an object
JValue(k, n, s, o) == [k |-> k, n |-> n, s |-> s, o |-> o]

NoMembers == [m \in {} |-> JValue("undefined", 0, "", <<>>)]

JNum(n) == JValue("number", n, "", NoMembers)

JStr(s) == JValue("string", 0, s, NoMembers)

JNull == JValue("null", 0, "", NoMembers)

Undefined == JValue("undefined", 0, "", NoMembers)

JObj(o) == JValue("object", 0, "", o)

\* the text of a frame: the JSON of a value, or text that is no JSON
Text(v) == [json |-> TRUE, v |-> v]

NotJson == [json |-> FALSE, v |-> JNull]

\* send_json: json.dumps of an event, the id a number and the rest strings
dumps(ev) ==
    LET member(f) == IF f = "id" THEN JNum(ev.payload[f]) ELSE JStr(ev.payload[f])
        payload == JObj([f \in DOMAIN ev.payload |-> member(f)])
    IN Text(JObj([m \in {"type", "payload"} |->
                    IF m = "type" THEN JStr(ev.type) ELSE payload]))

\* a call the handler makes: invalidateQueries({queryKey: [key]}) or onDeleted(id)
Call(fn, key, id) == [fn |-> fn, key |-> key, id |-> id]

\* a mutation of the contact list that has not been used
NoMutation == [status |-> "idle", id |-> 0]

\* what a render of the contact list shows: the contacts, the draft in the
\* edit form, and whether the two mutations are pending
Rendered(data, draft, upd, del) ==
    [contacts |-> data, draft |-> draft,
     saving |-> upd.status = "pending", deleting |-> del.status = "pending"]

\* nothing handled yet
NoFrame == [any |-> FALSE, data |-> NotJson, calls |-> <<>>, cleared |-> FALSE]

Init ==
    /\ \E n \in 0..2 :
         /\ db = Seed(n)
         /\ now = n
         /\ nmut = [i \in 1..n |-> 1]
    /\ tx = NoTx
    /\ proc = [p \in Procs |-> Idle]
    /\ resp = NoResponse
    /\ nreq = 0
    /\ group = {}
    /\ queue = [s \in Subs |-> <<>>]
    /\ inbox = [s \in Subs |-> <<>>]
    /\ log = <<>>
    /\ joined = [s \in Subs |-> 0]
    /\ mounted = FALSE
    /\ socket = [s \in Subs |-> "none"]
    /\ ws = "none"
    /\ seen = [s \in Subs |-> 0]
    /\ selectedContact = NULL
    /\ handled = NoFrame
    /\ contactsQuery = <<>>
    /\ editDraft = NULL
    /\ updateContact = NoMutation
    /\ deleteContact = NoMutation
    /\ view = Rendered(<<>>, NULL, NoMutation, NoMutation)

\* the server hands a request to its first free worker
CanStart(p) ==
    /\ proc[p].pc = "idle"
    /\ nreq < MaxRequests
    /\ \A q \in Procs : proc[q].pc = "idle" => ~(q < p)

\* a request that passed validation: its validated data and its instance
Begin(op, body, inst, pc) == [Idle EXCEPT !.pc = pc, !.op = op, !.body = body, !.inst = inst]

\* a response that is sent before the request has written or published
Reject(op, id, status, exc, errors) ==
    [NoResponse EXCEPT !.op = op, !.status = status, !.exc = exc, !.errors = errors,
                       !.target = id]

\* the response of a request that went into its handler
Response(r, status, exc, data, sent) ==
    [NoResponse EXCEPT !.op = r.op, !.status = status, !.exc = exc, !.data = data,
                       !.target = r.inst.id, !.committed = r.committed, !.wrote = r.wrote,
                       !.sent = sent]

ChannelUnchanged == UNCHANGED <<group, queue, inbox, log, joined>>

\* the transaction is rolled back and the unhandled exception becomes a 500
Abort(p, exc) ==
    /\ tx' = NoTx
    /\ proc' = [proc EXCEPT ![p] = Idle]
    /\ resp' = Response(proc[p], 500, exc, NULL, proc[p].sent)
    /\ UNCHANGED <<db, nmut>>

\* exit of transaction.atomic: the workspace becomes the committed state
CommitTx(id) ==
    /\ db' = tx.db
    /\ tx' = NoTx
    /\ nmut' = [i \in Live(tx.db) |->
                  IF i = id THEN (IF i \in DOMAIN nmut THEN nmut[i] ELSE 0) + 1
                  ELSE nmut[i]]

\* fault: edited_at = DateTimeField(default=timezone.now()), the default read
\* once when the module is loaded
VersionCreate_FrozenDefault(p, reason, next) ==
    /\ tx.owner = p
    /\ \E ok \in BOOLEAN :
         IF ok
         THEN /\ tx' = [tx EXCEPT !.db = AppendVersion(@, proc[p].inst, 0, reason)]
              /\ proc' = [proc EXCEPT ![p].pc = next]
              /\ UNCHANGED <<db, resp, nmut>>
         ELSE /\ tx' = NoTx
              /\ proc' = [proc EXCEPT ![p] = Idle]
              /\ resp' = Response(proc[p], 500, "DatabaseError", NULL, proc[p].sent)
              /\ UNCHANGED <<db, nmut>>
    /\ UNCHANGED <<now, nreq>>
    /\ ChannelUnchanged
    /\ BrowserUnchanged

\* ContactVersion.objects.create(...): edited_at defaults to timezone.now()
VersionCreate(p, reason, next) ==
    /\ tx.owner = p
    /\ \E t \in {now, now + 1}, ok \in BOOLEAN :
         /\ now' = t
         /\ IF ok
            THEN /\ tx' = [tx EXCEPT !.db = AppendVersion(@, proc[p].inst, t, reason)]
                 /\ proc' = [proc EXCEPT ![p].pc = next]
                 /\ UNCHANGED <<db, resp, nmut>>
            ELSE Abort(p, "DatabaseError")
    /\ UNCHANGED nreq
    /\ ChannelUnchanged
    /\ BrowserUnchanged

\* ContactViewSet._broadcast, called after the atomic block has been left;
\* the view returns data with status when group_send returns
broadcast(p, event_type, payload, status, data) ==
    /\ \E up \in BOOLEAN :
         IF up
         THEN /\ queue' = group_send(queue, group, Message(Event(event_type, payload)))
              /\ log' = Append(log, Event(event_type, payload))
              /\ resp' = Response(proc[p], status, "", data, <<Event(event_type, payload)>>)
         ELSE /\ resp' = Response(proc[p], 500, "ChannelError", NULL, <<>>)
              /\ UNCHANGED <<queue, log>>
    /\ proc' = [proc EXCEPT ![p] = Idle]
    /\ UNCHANGED <<db, tx, now, nreq, group, inbox, joined, nmut>>
    /\ BrowserUnchanged

\* ------------------------------------------------- POST /api/contacts/
\* CreateModelMixin.create: serializer.is_valid(raise_exception=True)
create(p, body) ==
    /\ CanStart(p)
    /\ nreq' = nreq + 1
    /\ IF Errors(body, FALSE, NULL, db) # {}
       THEN /\ resp' = Reject("create", 0, 400, "ValidationError", Errors(body, FALSE, NULL, db))
            /\ UNCHANGED proc
       ELSE /\ proc' = [proc EXCEPT ![p] = Begin("create", body, NULL, "create_save")]
            /\ UNCHANGED resp
    /\ UNCHANGED <<db, tx, now, nmut>>
    /\ ChannelUnchanged
    /\ BrowserUnchanged

\* perform_create after time.sleep(20): contact = serializer.save()
perform_create_save(p) ==
    /\ proc[p].pc = "create_save"
    /\ tx.owner = 0
    /\ LET c == SetAttrs([NULL EXCEPT !.id = db.nextCid], proc[p].body)
       IN \E ok \in BOOLEAN :
            IF ok /\ EmailUnique(db, c)
            THEN /\ tx' = [owner |-> p, db |-> [PutContact(db, c) EXCEPT !.nextCid = @ + 1]]
                 /\ proc' = [proc EXCEPT ![p].pc = "create_version", ![p].inst = c]
                 /\ UNCHANGED <<db, resp, nmut>>
            ELSE Abort(p, IF ok THEN "IntegrityError" ELSE "DatabaseError")
    /\ UNCHANGED <<now, nreq>>
    /\ ChannelUnchanged
    /\ BrowserUnchanged

perform_create_version(p) ==
    /\ proc[p].pc = "create_version"
    /\ VersionCreate(p, "created", "create_commit")

\* leaving the with block commits
AtomicExit(p, next) ==
    /\ tx.owner = p
    /\ \E ok \in BOOLEAN :
         IF ok
         THEN /\ CommitTx(proc[p].inst.id)
              /\ proc' = [proc EXCEPT ![p].pc = next, ![p].committed = TRUE,
                                      ![p].wrote = tx.db.contacts[proc[p].inst.id]]
              /\ UNCHANGED resp
         ELSE Abort(p, "DatabaseError")
    /\ UNCHANGED <<now, nreq>>
    /\ ChannelUnchanged
    /\ BrowserUnchanged

perform_create_commit(p) ==
    /\ proc[p].pc = "create_commit"
    /\ AtomicExit(p, "create_bcast")

perform_create_broadcast(p) ==
    /\ proc[p].pc = "create_bcast"
    /\ broadcast(p, "contact.created", ContactData(proc[p].inst), 201, ContactData(proc[p].inst))

\* ------------------------------------- PUT / PATCH /api/contacts/{id}/
\* UpdateModelMixin.update: get_object(), then serializer.is_valid()
update(p, id, body, partial) ==
    /\ CanStart(p)
    /\ nreq' = nreq + 1
    /\ IF id \notin Live(db)
       THEN /\ resp' = Reject("update", id, 404, "Http404", {})
            /\ UNCHANGED proc
       ELSE IF Errors(body, partial, db.contacts[id], db) # {}
       THEN /\ resp' = Reject("update", id, 400, "ValidationError", Errors(body, partial, db.contacts[id], db))
            /\ UNCHANGED proc
       ELSE /\ proc' = [proc EXCEPT ![p] = Begin("update", body, db.contacts[id], "update_save")]
            /\ UNCHANGED resp
    /\ UNCHANGED <<db, tx, now, nmut>>
    /\ ChannelUnchanged
    /\ BrowserUnchanged

\* fault: perform_update without transaction.atomic, the save is committed
\* at once
perform_update_save_Autocommit(p) ==
    /\ proc[p].pc = "update_save"
    /\ tx.owner = 0
    /\ LET c == SetAttrs(proc[p].inst, proc[p].body)
       IN /\ EmailUnique(db, c)
          /\ db' = PutContact(db, c)
          /\ tx' = [owner |-> p, db |-> PutContact(db, c)]
          /\ proc' = [proc EXCEPT ![p].pc = "update_version", ![p].inst = c]
    /\ UNCHANGED <<resp, nmut, now, nreq>>
    /\ ChannelUnchanged
    /\ BrowserUnchanged

\* fault: perform_update that saves the instance before the validated data
\* are set on it
perform_update_save_NoMerge(p) ==
    /\ proc[p].pc = "update_save"
    /\ tx.owner = 0
    /\ tx' = [owner |-> p, db |-> PutContact(db, proc[p].inst)]
    /\ proc' = [proc EXCEPT ![p].pc = "update_version"]
    /\ UNCHANGED <<db, resp, nmut, now, nreq>>
    /\ ChannelUnchanged
    /\ BrowserUnchanged

\* perform_update: contact = serializer.save().  Model.save() of an instance
\* with a primary key runs UPDATE and, when no row matched, INSERT.
perform_update_save(p) ==
    /\ proc[p].pc = "update_save"
    /\ tx.owner = 0
    /\ LET c == SetAttrs(proc[p].inst, proc[p].body)
       IN \E ok \in BOOLEAN :
            IF ok /\ EmailUnique(db, c)
            THEN /\ tx' = [owner |-> p, db |-> PutContact(db, c)]
                 /\ proc' = [proc EXCEPT ![p].pc = "update_version", ![p].inst = c]
                 /\ UNCHANGED <<db, resp, nmut>>
            ELSE Abort(p, IF ok THEN "IntegrityError" ELSE "DatabaseError")
    /\ UNCHANGED <<now, nreq>>
    /\ ChannelUnchanged
    /\ BrowserUnchanged

\* fault: perform_update with the edited_reason of perform_create
perform_update_version_CreatedTag(p) ==
    /\ proc[p].pc = "update_version"
    /\ VersionCreate(p, "created", "update_commit")

perform_update_version(p) ==
    /\ proc[p].pc = "update_version"
    /\ VersionCreate(p, "updated", "update_commit")

perform_update_commit(p) ==
    /\ proc[p].pc = "update_commit"
    /\ AtomicExit(p, "update_bcast")

perform_update_broadcast(p) ==
    /\ proc[p].pc = "update_bcast"
    /\ broadcast(p, "contact.updated", ContactData(proc[p].inst), 200, ContactData(proc[p].inst))

\* --------------------------------------- DELETE /api/contacts/{id}/
\* DestroyModelMixin.destroy: get_object()
destroy(p, id) ==
    /\ CanStart(p)
    /\ nreq' = nreq + 1
    /\ IF id \notin Live(db)
       THEN /\ resp' = Reject("destroy", id, 404, "Http404", {})
            /\ UNCHANGED proc
       ELSE /\ proc' = [proc EXCEPT ![p] = Begin("destroy", EmptyBody, db.contacts[id], "destroy_delete")]
            /\ UNCHANGED resp
    /\ UNCHANGED <<db, tx, now, nmut>>
    /\ ChannelUnchanged
    /\ BrowserUnchanged

\* perform_destroy: instance.delete(), in autocommit mode
perform_destroy_delete(p) ==
    /\ proc[p].pc = "destroy_delete"
    /\ tx.owner = 0
    /\ \E ok \in BOOLEAN :
         IF ok
         THEN /\ db' = DeleteContact(db, proc[p].inst.id)
              /\ nmut' = [i \in Live(db) \ {proc[p].inst.id} |-> nmut[i]]
              /\ proc' = [proc EXCEPT ![p].pc = "destroy_bcast", ![p].committed = TRUE]
              /\ UNCHANGED resp
         ELSE /\ proc' = [proc EXCEPT ![p] = Idle]
              /\ resp' = Response(proc[p], 500, "DatabaseError", NULL, <<>>)
              /\ UNCHANGED <<db, nmut>>
    /\ UNCHANGED <<tx, now, nreq>>
    /\ ChannelUnchanged
    /\ BrowserUnchanged

perform_destroy_broadcast(p) ==
    /\ proc[p].pc = "destroy_bcast"
    /\ broadcast(p, "contact.deleted", [id |-> proc[p].inst.id], 204, NULL)

\* ---------------------------------------- POST /api/external-update/
\* fields = {k: v for k, v in request.data.items() if k in {...}}
FilterFields(data) == [k \in DOMAIN data \cap Fields |-> data[k]]

\* @transaction.atomic, then Contact.objects.select_for_update().get(id=cid):
\* DoesNotExist is no API exception, the response is a 500
external_update(p, cid, data) ==
    /\ CanStart(p)
    /\ tx.owner = 0
    /\ nreq' = nreq + 1
    /\ IF cid \notin Live(db)
       THEN /\ resp' = Reject("external", cid, 500, "DoesNotExist", {})
            /\ UNCHANGED <<proc, tx>>
       ELSE /\ proc' = [proc EXCEPT ![p] =
                          Begin("external", FilterFields(data), db.contacts[cid], "external_save")]
            /\ tx' = [owner |-> p, db |-> db]
            /\ UNCHANGED resp
    /\ UNCHANGED <<db, now, nmut>>
    /\ ChannelUnchanged
    /\ BrowserUnchanged

\* setattr(contact, k, v) for the fields; contact.save()
external_update_save(p) ==
    /\ proc[p].pc = "external_save"
    /\ tx.owner = p
    /\ LET c == SetAttrs(proc[p].inst, proc[p].body)
       IN \E ok \in BOOLEAN :
            IF ok /\ EmailUnique(tx.db, c)
            THEN /\ tx' = [tx EXCEPT !.db = PutContact(@, c)]
                 /\ proc' = [proc EXCEPT ![p].pc = "external_version", ![p].inst = c]
                 /\ UNCHANGED <<db, resp, nmut>>
            ELSE Abort(p, IF ok THEN "IntegrityError" ELSE "DatabaseError")
    /\ UNCHANGED <<now, nreq>>
    /\ ChannelUnchanged
    /\ BrowserUnchanged

\* fault: external_update without its ContactVersion.objects.create
external_update_version_NoSnapshot(p) ==
    /\ proc[p].pc = "external_version"
    /\ tx.owner = p
    /\ proc' = [proc EXCEPT ![p].pc = "external_bcast"]
    /\ UNCHANGED <<db, tx, now, resp, nreq, nmut>>
    /\ ChannelUnchanged
    /\ BrowserUnchanged

external_update_version(p) ==
    /\ proc[p].pc = "external_version"
    /\ VersionCreate(p, "external_update", "external_bcast")

\* group_send in the function body, that is inside the transaction
external_update_broadcast(p) ==
    /\ proc[p].pc = "external_bcast"
    /\ tx.owner = p
    /\ LET ev == Event("contact.updated", ContactData(proc[p].inst))
       IN \E up \in BOOLEAN :
            IF up
            THEN /\ queue' = group_send(queue, group, Message(ev))
                 /\ log' = Append(log, ev)
                 /\ proc' = [proc EXCEPT ![p].pc = "external_commit", ![p].sent = <<ev>>]
                 /\ UNCHANGED <<tx, resp>>
            ELSE /\ tx' = NoTx
                 /\ proc' = [proc EXCEPT ![p] = Idle]
                 /\ resp' = Response(proc[p], 500, "ChannelError", NULL, <<>>)
                 /\ UNCHANGED <<queue, log>>
    /\ UNCHANGED <<db, nmut, now, nreq, group, inbox, joined>>
    /\ BrowserUnchanged

\* return Response(ContactSerializer(contact).data): the decorator commits
\* on the way out
external_update_commit(p) ==
    /\ proc[p].pc = "external_commit"
    /\ tx.owner = p
    /\ \E ok \in BOOLEAN :
         IF ok
         THEN /\ CommitTx(proc[p].inst.id)
              /\ proc' = [proc EXCEPT ![p] = Idle]
              /\ resp' = Response([proc[p] EXCEPT !.committed = TRUE,
                                                  !.wrote = tx.db.contacts[proc[p].inst.id]],
                                  200, "", ContactData(proc[p].inst), proc[p].sent)
         ELSE Abort(p, "DatabaseError")
    /\ UNCHANGED <<now, nreq>>
    /\ ChannelUnchanged
    /\ BrowserUnchanged

\* ------------------------------------------------ ContactsConsumer
\* fault: a channel that replays the published events to a consumer that joins
connect_Replay(s) ==
    /\ s \notin group
    /\ group' = group \cup {s}
    /\ joined' = [joined EXCEPT ![s] = Len(log)]
    /\ queue' = [queue EXCEPT ![s] = [k \in 1..Len(log) |-> Message(log[k])]]
    /\ UNCHANGED <<db, tx, now, proc, resp, nreq, inbox, log, nmut>>
    /\ BrowserUnchanged

\* fault: a group_add that overwrites the group instead of adding to it
connect_DropsOthers(s) ==
    /\ s \notin group
    /\ group' = {s}
    /\ joined' = [joined EXCEPT ![s] = Len(log)]
    /\ UNCHANGED <<db, tx, now, proc, resp, nreq, queue, inbox, log, nmut>>
    /\ BrowserUnchanged

\* connect: group_add, accept
connect(s) ==
    /\ s \notin group
    /\ group' = group \cup {s}
    /\ joined' = [joined EXCEPT ![s] = Len(log)]
    /\ UNCHANGED <<db, tx, now, proc, resp, nreq, queue, inbox, log, nmut>>
    /\ BrowserUnchanged

\* disconnect: group_discard; the channel and its pending messages are gone
disconnect(s) ==
    /\ s \in group
    /\ group' = group \ {s}
    /\ queue' = [queue EXCEPT ![s] = <<>>]
    /\ inbox' = [inbox EXCEPT ![s] = <<>>]
    /\ joined' = [joined EXCEPT ![s] = 0]
    /\ UNCHANGED <<db, tx, now, proc, resp, nreq, log, nmut>>
    /\ BrowserUnchanged

\* contacts_event: send_json(event["event"])
contacts_event(s) ==
    /\ s \in group
    /\ queue[s] # <<>>
    /\ inbox' = [inbox EXCEPT ![s] = Append(@, Head(queue[s]).event)]
    /\ queue' = [queue EXCEPT ![s] = Tail(@)]
    /\ UNCHANGED <<db, tx, now, proc, resp, nreq, group, log, joined, nmut>>
    /\ BrowserUnchanged

Next ==
    \/ \E p \in Procs, body \in Bodies : create(p, body)
    \/ \E p \in Procs : perform_create_save(p)
    \/ \E p \in Procs : perform_create_version(p)
    \/ \E p \in Procs : perform_create_commit(p)
    \/ \E p \in Procs : perform_create_broadcast(p)
    \/ \E p \in Procs, id \in ContactIds, body \in Bodies, partial \in BOOLEAN :
          update(p, id, body, partial)
    \/ \E p \in Procs : perform_update_save(p)
    \/ \E p \in Procs : perform_update_version(p)
    \/ \E p \in Procs : perform_update_commit(p)
    \/ \E p \in Procs : perform_update_broadcast(p)
    \/ \E p \in Procs, id \in ContactIds : destroy(p, id)
    \/ \E p \in Procs : perform_destroy_delete(p)
    \/ \E p \in Procs : perform_destroy_broadcast(p)
    \/ \E p \in Procs, cid \in ContactIds, data \in Bodies : external_update(p, cid, data)
    \/ \E p \in Procs : external_update_save(p)
    \/ \E p \in Procs : external_update_version(p)
    \/ \E p \in Procs : external_update_broadcast(p)
    \/ \E p \in Procs : external_update_commit(p)
    \/ \E s \in Subs : connect(s)
    \/ \E s \in Subs : disconnect(s)
    \/ \E s \in Subs : contacts_event(s)

Spec == Init /\ [][Next]_vars

\* ------------------------------------------------------------ reads
\* GET /api/contacts/{id}/: the committed row, NULL for a 404
retrieve(id) == IF id \in Live(db) THEN ContactData(db.contacts[id]) ELSE NULL

IsSortedDesc(h) == \A k \in 1..(Len(h) - 1) : h[k].edited_at >= h[k + 1].edited_at

\* GET /api/contacts/{id}/history/: filter(contact_id=pk).order_by("-edited_at").
\* The order of rows with equal edited_at is the database's choice, so this
\* is the set of the responses the view can give.
history(pk) ==
    LET rows == VersionsOf(db, pk)
        n == Len(rows)
        perms == {f \in [1..n -> 1..n] : \A a, b \in 1..n : a # b => f[a] # f[b]}
    IN {h \in {[k \in 1..n |-> rows[f[k]]] : f \in perms} : IsSortedDesc(h)}

\* ------------------------------------------- browser: useContactsWS
MaxEvents == 2

EventTypes == {"contact.created", "contact.updated", "contact.deleted"}

ServerUnchanged == UNCHANGED <<db, tx, now, proc, resp, nreq, nmut>>

\* the contacts the database can hold
Rows == {Seed(2).contacts[id] : id \in ContactIds}

\* the payloads of events: a contact, or the id of a deleted one
Payloads == {[id |-> id] : id \in ContactIds} \cup {ContactData(c) : c \in Rows}

\* the events the views publish about the contacts of the database
Published ==
    {Event("contact.deleted", [id |-> id]) : id \in ContactIds}
        \cup {Event(t, ContactData(db.contacts[id])) :
                 t \in {"contact.created", "contact.updated"}, id \in Live(db)}

\* _broadcast: group_send of one event to the group "contacts"
_broadcast(event_type, payload) ==
    /\ Event(event_type, payload) \in Published
    /\ Len(log) < MaxEvents
    /\ queue' = group_send(queue, group, Message(Event(event_type, payload)))
    /\ log' = Append(log, Event(event_type, payload))
    /\ UNCHANGED <<group, inbox, joined>>
    /\ ServerUnchanged
    /\ BrowserUnchanged

\* frames a socket can receive that the consumer never sends
OtherFrames ==
    LET msg(type, payload) ==
            Text(JObj([m \in {"type", "payload"} |-> IF m = "type" THEN type ELSE payload]))
        obj(k, v) == JObj([m \in {k} |-> v])
    IN {NotJson,
        Text(JNull),
        Text(JNum(1)),
        Text(obj("payload", obj("id", JNum(1)))),
        msg(JStr("ping"), obj("id", JNum(1))),
        msg(JStr("contact.deleted"), obj("contact_id", JNum(1))),
        msg(JStr("contact.deleted"), obj("id", JStr("1"))),
        msg(JStr("contact.deleted"), JNull),
        msg(JStr("contact.deleted"),
            JObj([m \in {"id", "contact_id"} |-> IF m = "id" THEN JNull ELSE JNum(2)]))}

\* v.key: undefined unless v is an object that has the member
Member(v, key) == IF v.k = "object" /\ key \in DOMAIN v.o THEN v.o[key] ELSE Undefined

\* v?.key
OptMember(v, key) == IF v.k \in {"null", "undefined"} THEN Undefined ELSE Member(v, key)

\* a ?? b
Coalesce(a, b) == IF a.k \in {"null", "undefined"} THEN b ELSE a

\* payload.type === "contact.created" || ... "contact.updated" || ... "contact.deleted"
IsContactEvent(type) == type.k = "string" /\ type.s \in EventTypes

\* the onDeleted call of a contact.deleted message: data?.id ?? data?.contact_id,
\* passed on if it is a number
DeletedId(payload) ==
    LET data == Member(payload, "payload")
        id == Coalesce(OptMember(data, "id"), OptMember(data, "contact_id"))
    IN IF id.k = "number" THEN <<Call("onDeleted", "", id.n)>> ELSE <<>>

\* fault: the handler of ContactList.tsx, which invalidates the contacts
\* query alone and calls no onDeleted
Calls_ListOnly(data) ==
    IF data.json /\ data.v.k # "null" /\ IsContactEvent(Member(data.v, "type"))
    THEN <<Call("invalidateQueries", "contacts", 0)>>
    ELSE <<>>

\* ws.onmessage: the calls it makes for a frame. JSON.parse throws on text
\* that is no JSON and payload.type throws on null; both are caught.
Calls(data) ==
    IF ~data.json \/ data.v.k = "null"
    THEN <<>>
    ELSE IF IsContactEvent(Member(data.v, "type"))
    THEN <<Call("invalidateQueries", "contacts", 0),
           Call("invalidateQueries", "contact-history", 0)>>
            \o (IF Member(data.v, "type").s = "contact.deleted"
                THEN DeletedId(data.v)
                ELSE <<>>)
    ELSE <<>>

\* fault: a handler that clears the selection whatever the id
handleDeleted_Any(current, id) == NULL

\* ContactsApp.handleDeleted
handleDeleted(current, id) == IF current.id = id THEN NULL ELSE current

\* the selection after the calls of one message
AfterCalls(current, calls) ==
    IF \E k \in 1..Len(calls) : calls[k].fn = "onDeleted"
    THEN handleDeleted(current,
                       calls[CHOOSE k \in 1..Len(calls) : calls[k].fn = "onDeleted"].id)
    ELSE current

\* fault: an effect that returns no cleanup
cleanup_NoClose(sk, w) == sk

\* the effect's cleanup: ws.close()
cleanup(sk, w) == [sk EXCEPT ![w] = "closed"]

\* the effect: openContactsSocket() on a channel no socket is using
useContactsWS(sk, s) == [sk EXCEPT ![s] = "open"]

CanOpen(sk, s) == sk[s] # "open" /\ s \notin group

\* ContactsApp mounts: the effect runs
mount ==
    /\ ~mounted
    /\ \E s \in Subs :
         /\ CanOpen(socket, s)
         /\ socket' = useContactsWS(socket, s)
         /\ ws' = s
         /\ seen' = [seen EXCEPT ![s] = 0]
    /\ mounted' = TRUE
    /\ UNCHANGED <<selectedContact, handled>>
    /\ ServerUnchanged /\ ChannelUnchanged /\ ListUnchanged

\* a render with changed dependencies: the cleanup runs, then the effect
rerender ==
    /\ mounted
    /\ \E s \in Subs :
         /\ CanOpen(cleanup(socket, ws), s)
         /\ socket' = useContactsWS(cleanup(socket, ws), s)
         /\ ws' = s
         /\ seen' = [seen EXCEPT ![s] = 0]
    /\ UNCHANGED <<mounted, selectedContact, handled>>
    /\ ServerUnchanged /\ ChannelUnchanged /\ ListUnchanged

\* ContactsApp unmounts: the cleanup runs, the component's state and the
\* handler are gone
unmount ==
    /\ mounted
    /\ socket' = cleanup(socket, ws)
    /\ ws' = "none"
    /\ mounted' = FALSE
    /\ selectedContact' = NULL
    /\ handled' = NoFrame
    /\ UNCHANGED seen
    /\ ServerUnchanged /\ ChannelUnchanged /\ ListUnchanged

\* the server accepts the handshake of a socket the browser has opened
accept(s) ==
    /\ socket[s] = "open"
    /\ connect(s)

\* the server sees the close of a socket the browser has closed
closed(s) ==
    /\ socket[s] = "closed"
    /\ disconnect(s)

\* ws.onmessage on a socket that is open to the server
onmessage(s, data) ==
    /\ socket[s] = "open"
    /\ s \in group
    /\ handled' = [any |-> TRUE, data |-> data, calls |-> Calls(data),
                   cleared |-> /\ selectedContact # NULL
                               /\ AfterCalls(selectedContact, Calls(data)) = NULL]
    /\ selectedContact' = AfterCalls(selectedContact, Calls(data))
    /\ UNCHANGED <<mounted, socket, ws>>
    /\ ServerUnchanged /\ ChannelUnchanged /\ ListUnchanged

\* the next frame the consumer has sent arrives
message(s) ==
    /\ seen[s] < Len(inbox[s])
    /\ onmessage(s, dumps(inbox[s][seen[s] + 1]))
    /\ seen' = [seen EXCEPT ![s] = @ + 1]

\* a frame the consumer never sends arrives
other_message(s, data) ==
    /\ onmessage(s, data)
    /\ UNCHANGED seen

\* the History button of a listed contact: onSelect(contact)
onSelect(id) ==
    /\ mounted
    /\ id \in Live(db)
    /\ selectedContact' = db.contacts[id]
    /\ UNCHANGED <<mounted, socket, ws, seen, handled>>
    /\ ServerUnchanged /\ ChannelUnchanged /\ ListUnchanged

NextWS ==
    \/ mount
    \/ rerender
    \/ unmount
    \/ \E s \in Subs : accept(s)
    \/ \E s \in Subs : closed(s)
    \/ \E s \in Subs : contacts_event(s)
    \/ \E event_type \in EventTypes, payload \in Payloads : _broadcast(event_type, payload)
    \/ \E s \in Subs : message(s)
    \/ \E s \in Subs, data \in OtherFrames : other_message(s, data)
    \/ \E id \in ContactIds : onSelect(id)

SpecWS == Init /\ [][NextWS]_vars

\* --------------------------------------------- browser: contact list
HookUnchanged == UNCHANGED <<mounted, socket, ws, seen, selectedContact, handled>>

\* what ContactsApi.list() can answer: the contacts of the database, or
\* fewer after deletes
ListResponses ==
    LET all == [k \in 1..Cardinality(ContactIds) |-> Seed(2).contacts[k]]
    IN {SubSeq(all, a, b) : a \in 1..(Len(all) + 1), b \in 0..Len(all)}

\* what the user types into a field of the edit form
Typed(f) == IF f = "email" THEN "z@x.io" ELSE "Zed"

\* the contacts query settles with new data
refetch(data) ==
    /\ \A k \in 1..Len(data) : data[k].id \in Live(db)
    /\ contactsQuery' = data
    /\ UNCHANGED <<editDraft, updateContact, deleteContact, view>>
    /\ ServerUnchanged /\ ChannelUnchanged /\ HookUnchanged

\* ContactList renders its state
render ==
    /\ view' = Rendered(contactsQuery, editDraft, updateContact, deleteContact)
    /\ UNCHANGED <<contactsQuery, editDraft, updateContact, deleteContact>>
    /\ ServerUnchanged /\ ChannelUnchanged /\ HookUnchanged

\* the contacts the last render showed as cards, and the one it showed as
\* the edit form
Shown == {view.contacts[k] : k \in 1..Len(view.contacts)}

isEditing(contact) == view.draft # NULL /\ view.draft.id = contact.id

\* the Edit button of a card: setEditDraft({...contact})
Edit(contact) ==
    /\ contact \in Shown
    /\ ~isEditing(contact)
    /\ editDraft' = contact
    /\ UNCHANGED <<contactsQuery, updateContact, deleteContact, view>>
    /\ ServerUnchanged /\ ChannelUnchanged /\ HookUnchanged

\* fault: a field handler that writes into whatever draft there is
setField_AnyDraft(draft, contact, f, v) ==
    IF draft # NULL
    THEN [g \in DOMAIN draft |-> IF g = f THEN v ELSE draft[g]]
    ELSE draft

\* the updater of a field's onChange:
\* draft && draft.id === contact.id ? {...draft, [f]: v} : draft
setField(draft, contact, f, v) ==
    IF draft # NULL /\ draft.id = contact.id
    THEN [g \in DOMAIN draft |-> IF g = f THEN v ELSE draft[g]]
    ELSE draft

\* onChange of a field of the edit form the last render showed
onChange(contact, f) ==
    /\ contact \in Shown
    /\ isEditing(contact)
    /\ editDraft' = setField(editDraft, contact, f, Typed(f))
    /\ UNCHANGED <<contactsQuery, updateContact, deleteContact, view>>
    /\ ServerUnchanged /\ ChannelUnchanged /\ HookUnchanged

\* onSubmit of the edit form, with Save enabled: updateContact.mutate with
\* the fields of the draft the render showed; one save is in flight at a time
onSubmit(contact) ==
    /\ contact \in Shown
    /\ isEditing(contact)
    /\ ~view.saving
    /\ updateContact.status # "pending"
    /\ updateContact' = [status |-> "pending", id |-> contact.id]
    /\ UNCHANGED <<contactsQuery, editDraft, deleteContact, view>>
    /\ ServerUnchanged /\ ChannelUnchanged /\ HookUnchanged

\* the Cancel button of the edit form, enabled: setEditDraft(null)
Cancel(contact) ==
    /\ contact \in Shown
    /\ isEditing(contact)
    /\ ~view.saving
    /\ editDraft' = NULL
    /\ UNCHANGED <<contactsQuery, updateContact, deleteContact, view>>
    /\ ServerUnchanged /\ ChannelUnchanged /\ HookUnchanged

\* updateContact.onError: a toast, the draft is left alone
onError(draft) == draft

\* the PATCH is answered 200: updateContact.onSuccess
updateContact_onSuccess ==
    /\ updateContact.status = "pending"
    /\ updateContact' = [updateContact EXCEPT !.status = "success"]
    /\ editDraft' = NULL
    /\ UNCHANGED <<contactsQuery, deleteContact, view>>
    /\ ServerUnchanged /\ ChannelUnchanged /\ HookUnchanged

\* the PATCH fails: updateContact.onError
updateContact_onError ==
    /\ updateContact.status = "pending"
    /\ updateContact' = [updateContact EXCEPT !.status = "error"]
    /\ editDraft' = onError(editDraft)
    /\ UNCHANGED <<contactsQuery, deleteContact, view>>
    /\ ServerUnchanged /\ ChannelUnchanged /\ HookUnchanged

\* the Delete button of a card, enabled: deleteContact.mutate(contact.id)
Delete(contact) ==
    /\ contact \in Shown
    /\ ~isEditing(contact)
    /\ ~view.deleting
    /\ deleteContact.status # "pending"
    /\ deleteContact' = [status |-> "pending", id |-> contact.id]
    /\ UNCHANGED <<contactsQuery, editDraft, updateContact, view>>
    /\ ServerUnchanged /\ ChannelUnchanged /\ HookUnchanged

\* the DELETE is answered: deleteContact.onSuccess or onError, a toast
deleteContact_settled(ok) ==
    /\ deleteContact.status = "pending"
    /\ deleteContact' = [deleteContact EXCEPT !.status = IF ok THEN "success" ELSE "error"]
    /\ UNCHANGED <<contactsQuery, editDraft, updateContact, view>>
    /\ ServerUnchanged /\ ChannelUnchanged /\ HookUnchanged

NextList ==
    \/ \E data \in ListResponses : refetch(data)
    \/ render
    \/ \E contact \in Rows : Edit(contact)
    \/ \E contact \in Rows, f \in Fields : onChange(contact, f)
    \/ \E contact \in Rows : onSubmit(contact)
    \/ \E contact \in Rows : Cancel(contact)
    \/ updateContact_onSuccess
    \/ updateContact_onError
    \/ \E contact \in Rows : Delete(contact)
    \/ \E ok \in BOOLEAN : deleteContact_settled(ok)

SpecList == Init /\ [][NextList]_vars

\* ----------------------------------------------------------- claims
SameFields(v, c) ==
    /\ v.first_name = c.first_name
    /\ v.last_name = c.last_name
    /\ v.email = c.email
    /\ v.phone = c.phone

LastInserted(id) == VersionsOf(db, id)[Len(VersionsOf(db, id))]

\* C1: every committed create, update and external update has appended exactly
\* one Version of its contact: a live contact that n such mutations have been
\* committed on has exactly n Versions, and the Version inserted last carries
\* the contact's current first name, last name, email and phone.
C1_OneVersionPerMutation ==
    \A id \in Live(db) :
        /\ id \in DOMAIN nmut
        /\ Len(VersionsOf(db, id)) = nmut[id]
        /\ nmut[id] >= 1
        /\ LastInserted(id).contact = id
        /\ SameFields(LastInserted(id), db.contacts[id])

C1_Witness ==
    \E id \in Live(db) :
        /\ nmut[id] = 3
        /\ Len(VersionsOf(db, id)) = 3
        /\ {VersionsOf(db, id)[k].edited_reason : k \in 1..3} =
              {"created", "updated", "external_update"}
        /\ ~SameFields(VersionsOf(db, id)[1], db.contacts[id])

\* the newest Version under ContactVersion.Meta.ordering (-edited_at, -id)
MostRecent(id) ==
    LET vs == {VersionsOf(db, id)[k] : k \in 1..Len(VersionsOf(db, id))}
    IN CHOOSE v \in vs :
         \A w \in vs : w.edited_at < v.edited_at \/ (w.edited_at = v.edited_at /\ w.id <= v.id)

\* C2: in every committed state every live contact has Versions, and the most
\* recent of them by timestamp has the contact's current field values.
C2_LatestVersionIsContact ==
    \A id \in Live(db) :
        /\ VersionsOf(db, id) # <<>>
        /\ SameFields(MostRecent(id), db.contacts[id])
        /\ \A k \in 1..Len(VersionsOf(db, id)) :
              VersionsOf(db, id)[k].edited_at <= MostRecent(id).edited_at

\* two requests raced on one contact and each left a Version
C2_Witness ==
    \E id \in Live(db) :
        /\ Len(VersionsOf(db, id)) = 3
        /\ ~SameFields(VersionsOf(db, id)[2], db.contacts[id])
        /\ \E p \in Procs : proc[p].pc = "update_bcast" /\ proc[p].inst.id = id
                            /\ ~SameFields(proc[p].inst, db.contacts[id])

\* C3: no two live contacts have the same email.
C3_EmailUnique ==
    \A i, j \in Live(db) : i # j => db.contacts[i].email # db.contacts[j].email

\* two creates with one email both passed validation; the unique index has
\* refused the second
C3_Witness ==
    /\ resp.exc = "IntegrityError"
    /\ resp.op = "create"
    /\ \E i \in Live(db) : nmut[i] = 1 /\ db.contacts[i].email = "a@x.io"

\* C4: what a reader sees is whole: a contact can be retrieved exactly when it
\* has a history, every response of the history view then starts with a
\* Version of the newest timestamp, one of these newest Versions has the
\* retrieved field values, and this is so while a transaction is open too.
\* A create, update or external update that a store error has ended has
\* committed nothing.
C4_ReadsSeeWholeUnits ==
    /\ \A id \in ContactIds :
          /\ (retrieve(id) # NULL) <=> (\E h \in history(id) : h # <<>>)
          /\ retrieve(id) # NULL =>
                \E h \in history(id) : SameFields(h[1], retrieve(id)) /\ h[1].contact = id
    /\ (resp.exc = "DatabaseError" /\ resp.op # "destroy") => ~resp.committed

\* a reader looks while a transaction holds a contact write whose Version is
\* not appended yet
C4_Witness ==
    /\ tx.owner # 0
    /\ \E id \in Live(tx.db) :
          /\ id \in Live(db)
          /\ tx.db.contacts[id] # db.contacts[id]
          /\ Len(tx.db.versions) = Len(db.versions)

Failures == {"ValidationError", "IntegrityError", "Http404", "DoesNotExist", "DatabaseError"}

\* C5: a mutation that ends in a validation, duplicate-key, not-found or
\* store error answers with an error status, has committed nothing and has
\* published no event.
C5_FailureLeavesNoTrace ==
    resp.exc \in Failures =>
        /\ resp.status >= 400
        /\ ~resp.committed
        /\ resp.sent = <<>>

\* C6: whatever the entry point, a request publishes its event only after
\* its transaction has committed.
C6_PublishAfterCommit ==
    /\ \A p \in Procs : proc[p].sent # <<>> => proc[p].committed
    /\ resp.sent # <<>> => resp.committed

\* what the client of s has been sent or will be sent from its channel
Received(s) == inbox[s] \o [k \in 1..Len(queue[s]) |-> queue[s][k].event]

Count(seq, e) == Cardinality({k \in 1..Len(seq) : seq[k] = e})

\* C7: a contact.created event reaches a consumer once if the consumer was in
\* the group when it was published and never otherwise, and the event of a
\* successful create carries the created contact as the response does.
C7_CreatedOnceNoReplay ==
    /\ \A s \in Subs : \A k \in 1..Len(log) :
          log[k].type = "contact.created" =>
              Count(Received(s), log[k]) = IF s \in group /\ k > joined[s] THEN 1 ELSE 0
    /\ (resp.op = "create" /\ resp.status = 201) =>
          /\ resp.sent = <<[type |-> "contact.created", payload |-> resp.data]>>
          /\ resp.data = [id |-> resp.wrote.id, first_name |-> resp.wrote.first_name,
                          last_name |-> resp.wrote.last_name, email |-> resp.wrote.email,
                          phone |-> resp.wrote.phone]
          /\ resp.wrote # NULL
          /\ Count(log, resp.sent[1]) = 1

\* one consumer was there before the create and has been sent its event, the
\* other joined after the publish and has nothing
C7_Witness ==
    \E s, r \in group :
        /\ joined[s] = 0
        /\ Len(inbox[s]) = 1
        /\ inbox[s][1].type = "contact.created"
        /\ joined[r] = 1
        /\ Received(r) = <<>>
        /\ resp.op = "create"
        /\ resp.status = 201

\* C8: every consumer in the group has been sent, or has waiting on its
\* channel, exactly the events published since it joined, in publish order.
C8_AllEventsInOrder ==
    \A s \in Subs :
        Received(s) = IF s \in group THEN SubSeq(log, joined[s] + 1, Len(log)) ELSE <<>>

\* two consumers, two different events, both delivered to both
C8_Witness ==
    \E s, r \in group :
        /\ s # r
        /\ Len(inbox[s]) = 2
        /\ Len(inbox[r]) = 2
        /\ inbox[s][1] # inbox[s][2]

Succeeded == resp.status \in {200, 201, 204}

C10_PublishFailureHarmless ==
    resp.exc = "ChannelError" => (Succeeded /\ resp.committed)

\* C11: an external update that names no live contact is answered with 404
\* Not Found and has created no contact, appended no Version and published
\* no event.
C11_ExternalUpdateNotFound ==
    (resp.op = "external" /\ resp.exc = "DoesNotExist") =>
        /\ resp.status = 404
        /\ ~resp.committed
        /\ resp.wrote = NULL
        /\ resp.sent = <<>>

\* the fields of a contact row as a request body
AsBody(c) == [f \in Fields |-> FieldOf(c, f)]

\* C12: an external update ends as the update of the same contact with the
\* same fields ends: 404 when the id names no contact, 400 naming the email
\* when the email is another contact's, no row written that the update's
\* validation refuses, and after success one contact.updated event with the
\* committed contact.
C12_ExternalUpdateAsUpdate ==
    resp.op = "external" =>
        /\ resp.exc = "DoesNotExist" => resp.status = 404
        /\ resp.exc = "IntegrityError" => (resp.status = 400 /\ "email" \in resp.errors)
        /\ resp.status = 200 =>
              /\ resp.committed
              /\ FieldErrors(AsBody(resp.wrote), TRUE) = {}
              /\ resp.sent = <<[type |-> "contact.updated", payload |-> resp.data]>>

\* C15: every live contact has a non-empty first name, last name, email and
\* phone.
C15_MandatoryFieldsNonEmpty ==
    \A id \in Live(db) : \A f \in Fields : FieldOf(db.contacts[id], f) # ""

\* C13: a create whose email is the email of a live contact is answered at
\* once with 400 and an error on the email field, and changes nothing; and no
\* create refused for its email, by validation or by the unique index, has
\* changed the contacts or the Versions or published an event.
C13_DuplicateCreateRejected ==
    [][ /\ \A p \in Procs, body \in Bodies :
              ( /\ create(p, body)
                /\ "email" \in DOMAIN body
                /\ \E i \in Live(db) : db.contacts[i].email = body["email"] )
              => /\ resp'.op = "create"
                 /\ resp'.status = 400
                 /\ "email" \in resp'.errors
                 /\ db' = db
                 /\ tx' = tx
                 /\ proc' = proc
                 /\ log' = log
        /\ ( /\ resp' # resp
             /\ resp'.op = "create"
             /\ resp'.exc \in {"ValidationError", "IntegrityError"} )
           => /\ db' = db
              /\ ~resp'.committed
              /\ resp'.sent = <<>>
      ]_vars

\* a create with the email of the one live contact has been refused
C13_Witness ==
    /\ resp.op = "create"
    /\ resp.status = 400
    /\ resp.errors = {"email"}
    /\ Cardinality(Live(db)) = 1
    /\ Len(db.versions) = 1
    /\ \E i \in Live(db) : db.contacts[i].email = "a@x.io"
    /\ nreq = 1

\* the email an update with this body writes to the row of inst
NewEmail(inst, body) == IF "email" \in DOMAIN body THEN body["email"] ELSE inst.email

\* a live contact other than id has this email
TakenByOther(d, id, em) == \E i \in Live(d) \ {id} : d.contacts[i].email = em

\* C14: an update of a live contact whose fields are valid is refused by
\* validation, with 400 and an error on the email, exactly when the request
\* supplies an email that a different live contact has; and its save is
\* refused by the unique index only when a different live contact has the
\* email it writes, and always then.
C14_DuplicateOnlyWithOther ==
    [][ /\ \A p \in Procs, id \in ContactIds, body \in Bodies, partial \in BOOLEAN :
              (update(p, id, body, partial) /\ id \in Live(db) /\ FieldErrors(body, partial) = {})
              => /\ (proc' = proc) <=>
                       ("email" \in DOMAIN body /\ TakenByOther(db, id, body["email"]))
                 /\ (proc' = proc) =>
                       (resp'.status = 400 /\ resp'.errors = {"email"} /\ db' = db)
        /\ \A p \in Procs :
              perform_update_save(p)
              => LET clash == TakenByOther(db, proc[p].inst.id,
                                           NewEmail(proc[p].inst, proc[p].body))
                 IN /\ (proc'[p].pc = "idle" /\ resp'.exc = "IntegrityError") => clash
                    /\ clash => (proc'[p].pc = "idle" /\ resp'.status = 500 /\ db' = db)
      ]_vars

\* an update that keeps the contact's own email has been accepted while
\* another contact is live
C14_Witness ==
    /\ resp.op = "update"
    /\ resp.status = 200
    /\ resp.target = 1
    /\ resp.wrote.email = "a@x.io"
    /\ resp.wrote.first_name = "Ada"
    /\ 2 \in Live(db)
    /\ nreq = 1

C17_DeletedHasNoHistory ==
    [][ /\ \A id \in ContactIds : id \notin Live(db') => history(id)' = {<<>>}
        /\ \A k \in 1..Len(db'.versions) : db'.versions[k].contact \in Live(db')
        /\ \A id \in ContactIds :
              (id \notin Live(db) /\ id < db.nextCid) => VersionsOf(db', id) = <<>>
        /\ \A p \in Procs :
              (perform_destroy_delete(p) /\ db' # db) =>
                  /\ VersionsOf(db', proc[p].inst.id) = <<>>
                  /\ \A j \in ContactIds \ {proc[p].inst.id} :
                        VersionsOf(db', j) = VersionsOf(db, j)
      ]_vars

\* the Versions of a database as a set of rows
VersionSet(d) == {d.versions[k] : k \in 1..Len(d.versions)}

\* C18: from one committed state to the next every Version stays as it is,
\* with its contact, its fields, its timestamp and its reason, unless the step
\* is the delete of its contact, which removes all Versions of that contact;
\* the Versions that remain keep their order, a new Version gets a fresh id,
\* and an open transaction only appends to the committed Versions.
C18_VersionsImmutable ==
    [][ /\ \A v \in VersionSet(db) :
              \/ v \in VersionSet(db')
              \/ /\ \E p \in Procs : perform_destroy_delete(p) /\ proc[p].inst.id = v.contact
                 /\ v.contact \notin Live(db')
                 /\ VersionsOf(db', v.contact) = <<>>
        /\ SelectSeq(db'.versions, LAMBDA v : v \in VersionSet(db))
              = SelectSeq(db.versions, LAMBDA v : v \in VersionSet(db'))
        /\ \A v \in VersionSet(db') \ VersionSet(db) : v.id >= db.nextVid
        /\ \A v, w \in VersionSet(db') : v.id = w.id => v = w
        /\ tx'.owner # 0 =>
              SubSeq(tx'.db.versions, 1, Len(db'.versions)) = db'.versions
      ]_vars

\* contact 1 has been updated and contact 2 deleted: the first Version of
\* contact 1 is still the one its create appended, those of contact 2 are gone
C18_Witness ==
    /\ Len(VersionsOf(db, 1)) = 2
    /\ VersionsOf(db, 1)[1] = ContactVersion(1, Contact(1, "Ada", "Lee", "a@x.io", "555"), 1, "created")
    /\ ~SameFields(VersionsOf(db, 1)[1], db.contacts[1])
    /\ 2 \notin Live(db)
    /\ db.nextCid = 3
    /\ Len(db.versions) = 2

\* C19: every response of the history view lists the Versions by timestamp
\* descending and, where timestamps are equal, the one inserted later first.
C19_HistoryNewestFirst ==
    \A id \in ContactIds : \A h \in history(id) : \A k \in 1..(Len(h) - 1) :
        \/ h[k].edited_at > h[k + 1].edited_at
        \/ (h[k].edited_at = h[k + 1].edited_at /\ h[k].id > h[k + 1].id)

\* the Versions of h that an update appended
Updates(h) == SelectSeq(h, LAMBDA v : v.edited_reason = "updated")

\* C20: when two updates of a contact have been committed one after the
\* other, every response of the history view has the entry of the second
\* update first and the entry of the first update after it, and the contact
\* has the fields of the second update.
C20_TwoUpdatesNewestFirst ==
    \A id \in Live(db) :
        Len(Updates(VersionsOf(db, id))) = 2 =>
            \A h \in history(id) :
                /\ Updates(h) = <<Updates(VersionsOf(db, id))[2], Updates(VersionsOf(db, id))[1]>>
                /\ h[1] = Updates(VersionsOf(db, id))[2]
                /\ SameFields(h[1], db.contacts[id])

\* the Version a transaction has appended last
Appended(t) == t.db.versions[Len(t.db.versions)]

\* C21: the Version that perform_create appends is tagged created, the one
\* perform_update appends updated, the one external_update appends
\* external_update, each for the contact of the request; there is no other
\* tag; and when a create commits, the history of the new contact is one
\* entry, tagged created, with the contact's fields.
C21_ReasonNamesOperation ==
    [][ /\ \A p \in Procs :
              /\ (perform_create_version(p) /\ tx'.owner = p) =>
                    (Appended(tx').edited_reason = "created"
                        /\ Appended(tx').contact = proc[p].inst.id)
              /\ (perform_update_version(p) /\ tx'.owner = p) =>
                    (Appended(tx').edited_reason = "updated"
                        /\ Appended(tx').contact = proc[p].inst.id)
              /\ (external_update_version(p) /\ tx'.owner = p) =>
                    (Appended(tx').edited_reason = "external_update"
                        /\ Appended(tx').contact = proc[p].inst.id)
              /\ (perform_create_commit(p) /\ db' # db) =>
                    \A h \in history(proc[p].inst.id)' :
                        /\ Len(h) = 1
                        /\ h[1].edited_reason = "created"
                        /\ SameFields(h[1], db'.contacts[proc[p].inst.id])
        /\ \A k \in 1..Len(db'.versions) :
              db'.versions[k].edited_reason \in {"created", "updated", "external_update"}
      ]_vars

\* a create has been answered and the history of its contact is the one
\* created entry
C21_Witness ==
    /\ resp.op = "create"
    /\ resp.status = 201
    /\ nreq = 1
    /\ resp.wrote.id \in Live(db)
    /\ Len(VersionsOf(db, resp.wrote.id)) = 1
    /\ VersionsOf(db, resp.wrote.id)[1].edited_reason = "created"
    /\ SameFields(VersionsOf(db, resp.wrote.id)[1], resp.data)

\* C22: a delete that finds no contact is answered 404 and publishes
\* nothing, and for every id at most one delete gets through: at most one
\* contact.deleted event for the id is published, and no delete of the id is
\* on its way to success after another has succeeded.
C22_OneDeletePerContact ==
    /\ (resp.op = "destroy" /\ resp.exc = "Http404") =>
          (resp.status = 404 /\ resp.sent = <<>> /\ ~resp.committed)
    /\ \A id \in ContactIds :
          Count(log, [type |-> "contact.deleted", payload |-> [id |-> id]]) <= 1
    /\ \A p \in Procs :
          (resp.op = "destroy" /\ resp.status = 204 /\ proc[p].pc = "destroy_bcast")
              => proc[p].inst.id # resp.target

\* the newest Version of id in d under ContactVersion.Meta.ordering
MostRecentIn(d, id) ==
    LET vs == {VersionsOf(d, id)[k] : k \in 1..Len(VersionsOf(d, id))}
    IN CHOOSE v \in vs :
         \A w \in vs : w.edited_at < v.edited_at \/ (w.edited_at = v.edited_at /\ w.id <= v.id)

\* C24: when an update or an external update commits, the contact's row is
\* the row this request wrote (the request's supplied fields included), and
\* the most recent Version is this request's snapshot of that row; and the
\* row of a live contact changes at no other step, so that after a race the
\* contact and its most recent Version are those of the request that
\* committed last.
C24_LastCommitWins ==
    [][ /\ \A p \in Procs :
              ((perform_update_commit(p) \/ external_update_commit(p)) /\ db' # db) =>
                  LET id == proc[p].inst.id
                      last == MostRecentIn(db', id)
                  IN /\ db'.contacts[id] = proc[p].inst
                     /\ \A f \in DOMAIN proc[p].body :
                           FieldOf(db'.contacts[id], f) = proc[p].body[f]
                     /\ SameFields(last, proc[p].inst)
                     /\ last = VersionsOf(db', id)[Len(VersionsOf(db', id))]
                     /\ last.id = db'.nextVid - 1
                     /\ last.edited_reason =
                           IF proc[p].op = "update" THEN "updated" ELSE "external_update"
        /\ \A id \in Live(db) \cap Live(db') :
              db'.contacts[id] # db.contacts[id] =>
                  \E p \in Procs :
                      /\ proc[p].inst.id = id
                      /\ perform_update_commit(p) \/ external_update_commit(p)
      ]_vars

\* an update read contact 1, an external update then changed its email and
\* committed, and the update, which supplies the first name alone, committed
\* last: the contact is the update's row
C24_Witness ==
    \E p \in Procs :
        /\ proc[p].pc = "update_bcast"
        /\ DOMAIN proc[p].body = {"first_name"}
        /\ resp.op = "external"
        /\ resp.status = 200
        /\ resp.target = proc[p].inst.id
        /\ resp.wrote.email # proc[p].inst.email
        /\ db.contacts[proc[p].inst.id] = proc[p].inst
        /\ LastInserted(proc[p].inst.id).edited_reason = "updated"
        /\ Len(VersionsOf(db, proc[p].inst.id)) = 3

Reverse(s) == [k \in 1..Len(s) |-> s[Len(s) + 1 - k]]

\* C25: the history view returns the Versions of a contact in the reverse of
\* the order in which the mutations committed, and in no other order.
C25_HistoryIsCommitOrder ==
    \A id \in Live(db) : history(id) = {Reverse(VersionsOf(db, id))}

C27_UpdateOfAbsentFails ==
    [][ /\ \A p \in Procs : \A id \in ContactIds : \A b \in Bodies : \A partial \in BOOLEAN :
              (update(p, id, b, partial) /\ id \notin Live(db)) =>
                  /\ resp'.status = 404
                  /\ resp'.exc = "Http404"
                  /\ ~resp'.committed
                  /\ db' = db /\ tx' = tx /\ log' = log
        /\ \A p \in Procs :
              (perform_update_commit(p) /\ db' # db) =>
                  /\ proc[p].inst.id \in Live(db)
                  /\ Len(VersionsOf(db', proc[p].inst.id))
                        = Len(VersionsOf(db, proc[p].inst.id)) + 1
      ]_vars

\* the sockets of the hook that the browser has not closed
OpenSockets(sk) == {s \in Subs : sk[s] = "open"}

\* C23: when the server sees a socket closed, its consumer leaves the group
\* and holds no message, and a consumer outside the group gets nothing of
\* what is published; the hook's cleanup closes the socket of its effect at
\* every unmount and every re-run, no message is handled on a closed socket,
\* and the hook holds its one socket open while mounted and none otherwise.
C23_ClosedSocketGetsNothing ==
    [][ /\ \A s \in Subs :
              /\ closed(s) => (s \notin group' /\ Received(s)' = <<>>)
              /\ s \notin group' => Received(s)' = <<>>
              /\ socket[s] # "open" => seen'[s] \in {seen[s], 0}
        /\ (handled'.any /\ handled' # handled) =>
              (ws # "none" /\ socket[ws] = "open" /\ ws' = ws)
        /\ unmount => socket'[ws] = "closed"
        /\ rerender => (socket'[ws] = "closed" \/ ws' = ws)
        /\ Cardinality(OpenSockets(socket')) <= 1
        /\ OpenSockets(socket') = IF mounted' THEN {ws'} ELSE {}
      ]_vars

\* the hook was re-run: its first socket handled a frame, was closed and has
\* left the group, and of two events the second socket got the one published
\* after it joined
C23_Witness ==
    /\ mounted
    /\ Len(log) = 2
    /\ \E s, r \in Subs :
          /\ socket[s] = "closed"
          /\ seen[s] = 1
          /\ s \notin group
          /\ Received(s) = <<>>
          /\ ws = r
          /\ socket[r] = "open"
          /\ r \in group
          /\ joined[r] = 1
          /\ inbox[r] = <<log[2]>>
          /\ seen[r] = 1

\* the text is JSON of an object with a member type that is the string t
HasType(data, t) ==
    /\ data.json
    /\ data.v.k = "object"
    /\ "type" \in DOMAIN data.v.o
    /\ data.v.o["type"] = JStr(t)

\* the message's payload is an object whose id is the number n, or which has
\* no id, or a null one, and whose contact_id is the number n
NamesId(data, n) ==
    /\ "payload" \in DOMAIN data.v.o
    /\ data.v.o["payload"].k = "object"
    /\ LET pl == data.v.o["payload"].o
       IN \/ ("id" \in DOMAIN pl /\ pl["id"] = JNum(n))
          \/ /\ ("id" \notin DOMAIN pl \/ pl["id"] = JNull)
             /\ "contact_id" \in DOMAIN pl
             /\ pl["contact_id"] = JNum(n)

\* C28: a message handled by the hook (the frame handled last, after the
\* step) clears the selection when it is a
\* contact.deleted message that names, as a number, the id of the selected
\* contact, and leaves the selection as it is in every other case: another
\* id, no numeric id, another type, or no message at all.
C28_DeletedClearsSelection ==
    [][ \A s \in Subs :
           (handled'.any /\ onmessage(s, handled'.data)) =>
               IF /\ HasType(handled'.data, "contact.deleted")
                  /\ selectedContact # NULL
                  /\ NamesId(handled'.data, selectedContact.id)
               THEN selectedContact' = NULL
               ELSE selectedContact' = selectedContact
      ]_vars

\* a contact.deleted message from the server has just cleared the selection
C28_Witness ==
    /\ handled.any
    /\ handled.cleared
    /\ handled.data = dumps(Event("contact.deleted", [id |-> 1]))
    /\ handled.calls[3] = Call("onDeleted", "", 1)
    /\ selectedContact = NULL
    /\ \E s \in Subs : seen[s] = 2 /\ inbox[s][2] = Event("contact.deleted", [id |-> 1])

\* C29: a frame that is not JSON, or whose type is none of the three, makes
\* the handler call nothing, changes no selection and leaves the handler on
\* its open socket, ready for the next frame; a frame of one of the three
\* types makes it invalidate the contacts and the contact-history queries,
\* in this order, before anything else.
C29_BadFramesAreIgnored ==
    [][ \A s \in Subs :
           (handled'.any /\ onmessage(s, handled'.data)) =>
               IF \E t \in EventTypes : HasType(handled'.data, t)
               THEN /\ Len(handled'.calls) >= 2
                    /\ handled'.calls[1] = Call("invalidateQueries", "contacts", 0)
                    /\ handled'.calls[2] = Call("invalidateQueries", "contact-history", 0)
                    /\ \A k \in 3..Len(handled'.calls) : handled'.calls[k].fn = "onDeleted"
               ELSE /\ handled'.calls = <<>>
                    /\ selectedContact' = selectedContact
                    /\ mounted' /\ ws' = s /\ socket'[s] = "open" /\ s \in group'
      ]_vars

\* text that is no JSON was handled last, nothing was called, a contact is
\* still selected and a frame of the server waits to be handled
C29_Witness ==
    /\ handled.any
    /\ handled.data = NotJson
    /\ handled.calls = <<>>
    /\ selectedContact # NULL
    /\ ws # "none"
    /\ seen[ws] = 1
    /\ Len(inbox[ws]) = 2

\* the contacts of a list that are in edit mode under a draft
EditMode(data, draft) == {k \in 1..Len(data) : draft # NULL /\ data[k].id = draft.id}

\* C30: of the listed contacts at most one is in edit mode, in the state
\* and in what is rendered; a field's onChange writes the typed value into
\* the draft when the draft is that contact's and changes nothing otherwise;
\* a draft goes away only in a successful save or a Cancel, is replaced by
\* another contact's only through that contact's Edit button, and a failed
\* save leaves it as it is.
C30_OneDraftAtATime ==
    [][ /\ Cardinality(EditMode(contactsQuery', editDraft')) <= 1
        /\ Cardinality(EditMode(view'.contacts, view'.draft)) <= 1
        /\ \A contact \in Rows : \A f \in Fields :
              onChange(contact, f) =>
                  IF editDraft # NULL /\ editDraft.id = contact.id
                  THEN editDraft' = [editDraft EXCEPT ![f] = Typed(f)]
                  ELSE editDraft' = editDraft
        /\ (editDraft # NULL /\ editDraft' = NULL) =>
              (updateContact_onSuccess \/ \E contact \in Rows : Cancel(contact))
        /\ (editDraft # NULL /\ editDraft' # NULL /\ editDraft'.id # editDraft.id) =>
              \E contact \in Rows : Edit(contact)
        /\ updateContact_onError => (editDraft' = editDraft /\ updateContact'.status = "error")
      ]_vars

\* the save of contact 1 has failed and the draft still holds what was typed
C30_Witness ==
    /\ updateContact = [status |-> "error", id |-> 1]
    /\ editDraft # NULL
    /\ editDraft.id = 1
    /\ editDraft.first_name = "Zed"
    /\ editDraft.email = "z@x.io"
    /\ view.draft = editDraft
    /\ ~view.saving

====
